---- MODULE Spec2Model ----
(***************************************************************************)
(* Model of the download-session orchestration of src/main.py:            *)
(*   - process_download, the /process request handler (session workspace  *)
(*     allocation, search, proxy / no-proxy fetch attempts, archiving,     *)
(*     failure cleanup);                                                   *)
(*   - get_best_cookies / setup_youtube_cookies, the cookie selection;     *)
(*   - cleanup_old_files, the periodic retention sweep.                    *)
(* Time is counted in whole hours.  The storage tree is the only state     *)
(* shared by the request handlers and the sweeper.                         *)
(***************************************************************************)
EXTENDS Integers, Sequences, FiniteSets, TLC

\* ------------------------------------------------------------------ bounds
NumReq == 2
MaxSongs == 2
MaxTime == 3
MaxNameLen == 1
MaxCookies == 2
MaxSessions == 2

\* ------------------------------------------------------- program constants
RetentionHours == 2
CookieRetentionDays == 7
NameLimit == 50

Requests == 1..NumReq

Min(a, b) == IF a < b THEN a ELSE b
Range(s) == {s[i] : i \in DOMAIN s}

\* --------------------------------------------------------------- names
\* Characters a form field may hold (one letter, the path separator, the dot)
Alphabet == {"a", "/", "."}
\* [a-zA-Z0-9_-] restricted to the alphabet above
AllowedChars == {"a"}
RawNames == UNION {[1..k -> Alphabet] : k \in 0..MaxNameLen}
guest == <<"g", "u", "e", "s", "t">>

\* re.sub(r'[^a-zA-Z0-9_-]', '', name).strip()[:50] or "guest"; a missing
\* field and the empty string are both the empty sequence
sanitize_name(name) ==
    IF name = <<>> THEN guest
    ELSE LET kept == SelectSeq(name, LAMBDA c : c \in AllowedChars)
             cut == SubSeq(kept, 1, Min(Len(kept), NameLimit))
         IN IF cut = <<>> THEN guest ELSE cut

\* A session workspace path <download root>/<user>/<sid>
NoPath == [user |-> <<>>, sid |-> 0]
session_path_no_id(user, sid) == [user |-> user, sid |-> 0]
session_path(user, sid) == [user |-> user, sid |-> sid]

\* ------------------------------------------------------------ variables
VARIABLES
    platform,     \* what os.path.getctime reports: "posix" inode-change time, "windows" creation time
    now,          \* wall clock, hours
    nextId,       \* source of fresh session identifiers (uuid4)
    tree,         \* the download tree: [users: label -> dir, sess: path -> workspace]
    area,         \* flat storage areas: converter_uploads, converter_output, cookies
    env,          \* process environment and TEMP_BASE/env_cookies.txt
    req,          \* per request: the handler's locals and position
    sw,           \* the sweeper's locals and position
    sel           \* last cookie selection: candidates, sorted options, result

vars == <<platform, now, nextId, tree, area, env, req, sw, sel>>

\* -------------------------------------------------------- download tree
EmptyTree == [users |-> <<>>, sess |-> <<>>]
NewSession(t) == [created |-> t, files |-> {}, sub |-> FALSE, subfiles |-> {}, zip |-> FALSE]

SessionsOf(tr, label) == {p \in DOMAIN tr.sess : p.user = label}

\* The user directory gains or loses a direct entry at time t: on POSIX its
\* ctime (inode change time) becomes t, on Windows ctime is the creation time
TouchUser(users, label, t) ==
    IF label \in DOMAIN users /\ platform = "posix"
    THEN [users EXCEPT ![label].ctime = t]
    ELSE users

\* os.makedirs(path, exist_ok=True) of a session workspace path
makedirs(tr, p, t) ==
    IF p \in DOMAIN tr.sess THEN tr
    ELSE [users |-> IF p.user \in DOMAIN tr.users
                    THEN TouchUser(tr.users, p.user, t)
                    ELSE tr.users @@ (p.user :> [ctime |-> t]),
          sess |-> tr.sess @@ (p :> NewSession(t))]

Restrict(f, S) == [x \in S |-> f[x]]

rmtree_session_keep(tr, p, t) == tr
\* shutil.rmtree(session_folder), the folder existing
rmtree_session(tr, p, t) ==
    [users |-> TouchUser(tr.users, p.user, t),
     sess |-> Restrict(tr.sess, DOMAIN tr.sess \ {p})]

\* shutil.rmtree of a user directory with everything below it
rmtree_user(tr, label) ==
    [users |-> Restrict(tr.users, DOMAIN tr.users \ {label}),
     sess |-> Restrict(tr.sess, DOMAIN tr.sess \ SessionsOf(tr, label))]

\* os.path.getctime of a user directory
getctime(tr, label) == tr.users[label].ctime

\* -------------------------------------------------------- flat areas
\* converter_uploads, converter_output and cookies hold plain files, each a
\* record [name, ctime]
BaseFolders == <<"downloads", "converter_uploads", "converter_output">>
CookieNames == {<<"c", "1">>, <<"c", "2">>, <<"c", "3">>}
EmptyAreas == [converter_uploads |-> {}, converter_output |-> {}, cookies |-> {}]

Names(entries) == {e.name : e \in entries}
EntryOf(entries, name) == CHOOSE e \in entries : e.name = name

\* ----------------------------------------------------- cookie selection
EnvPath == [src |-> "env", name |-> <<"e", "n", "v">>]
UploadPath(name) == [src |-> "upload", name |-> name]
NoCookie == [src |-> "none", name |-> <<>>]

\* All orders in which glob.glob may list a set of entries
Orders(S) == {o \in [1..Cardinality(S) -> S] : \A i, j \in 1..Cardinality(S) : o[i] = o[j] => i = j}

\* cookies_options before the sort: the environment bundle first (age 0), then
\* every uploaded bundle in glob order, each with the result of its probe
\* (W is the set of paths test_cookies_validity reports working)
cookies_options(envOk, order, W, t) ==
    (IF envOk THEN <<[path |-> EnvPath, working |-> EnvPath \in W, age |-> 0]>> ELSE <<>>)
    \o [i \in 1..Len(order) |->
          [path |-> UploadPath(order[i].name),
           working |-> UploadPath(order[i].name) \in W,
           age |-> t - order[i].ctime]]

KeyLess_oldest_first(a, b) ==
    \/ a.working /\ ~b.working
    \/ a.working = b.working /\ a.age > b.age
\* key=lambda x: (not x['working'], x['age']): a sorts strictly before b
KeyLess(a, b) ==
    \/ a.working /\ ~b.working
    \/ a.working = b.working /\ a.age < b.age

\* list.sort is stable: an option goes before the first one it is strictly less than
InsertOption(s, o) ==
    LET later == {i \in 1..Len(s) : KeyLess(o, s[i])}
        k == IF later = {} THEN Len(s) + 1 ELSE CHOOSE i \in later : \A j \in later : i <= j
    IN SubSeq(s, 1, k - 1) \o <<o>> \o SubSeq(s, k, Len(s))

RECURSIVE SortOptions(_)
SortOptions(s) ==
    IF s = <<>> THEN <<>>
    ELSE InsertOption(SortOptions(SubSeq(s, 1, Len(s) - 1)), s[Len(s)])

\* the return value of get_best_cookies, from the sorted options
BestOf(sorted) ==
    LET w == {i \in 1..Len(sorted) : sorted[i].working}
    IN IF w # {} THEN sorted[CHOOSE i \in w : \A j \in w : i <= j].path
       ELSE IF sorted # <<>> THEN sorted[1].path
       ELSE NoCookie

\* the environment bundle is written to TEMP_BASE/env_cookies.txt on every call
EnvAfter(e, writeOk) ==
    IF e.blob /\ writeOk THEN [e EXCEPT !.file = TRUE] ELSE e

\* ------------------------------------------------- fetch configuration
\* yt_dlp_args of the attempt with proxy: --proxy, --source-address, optional --cookies
PrimaryArgs(cookies) == [proxy |-> TRUE, source_address |-> TRUE, cookies |-> cookies]
FallbackArgs_with_proxy(cookies) == [proxy |-> TRUE, source_address |-> TRUE, cookies |-> cookies]
\* yt_dlp_args of the attempt without proxy
FallbackArgs(cookies) == [proxy |-> FALSE, source_address |-> FALSE, cookies |-> cookies]

NeedFallback_always(success) == TRUE
\* "if not success:" guarding the attempt without proxy
NeedFallback(success) == ~success

\* What one call of downloader.download_song may do: report success, report
\* failure, raise AudioProviderError, raise any other exception
FetchResults == {"ok", "fail", "ape", "err"}

\* ------------------------------------------------------ request handler
NewRequest ==
    [pc |-> "idle", url |-> FALSE, user_name |-> guest, session_folder |-> NoPath,
     n |-> 0, named |-> TRUE, idx |-> 0, success |-> FALSE, att |-> <<>>,
     fetched |-> <<>>,
     proxy_url |-> FALSE, best_cookies |-> NoCookie,
     called |-> FALSE, output |-> "unchecked", final |-> 0, flashed |-> FALSE,
     rm_failed |-> FALSE,
     outcome |-> "none"]

is_playlist(q) == q.n > 1
\* download_path is a sub-directory of the workspace when the sanitized
\* playlist name is non-empty; os.path.join(session_folder, "") is the
\* workspace itself
UsesSub(q) == is_playlist(q) /\ q.named

Exists(p) == p \in DOMAIN tree.sess
SessionEmpty(s) == s.files = {} /\ ~s.sub /\ ~s.zip

\* A file of song k lands in the output directory; the fetch collaborator
\* creates missing parent directories
LandFile(tr, q, t) ==
    LET p == q.session_folder
        base == makedirs(tr, p, t)
    IN IF UsesSub(q)
       THEN [base EXCEPT !.sess[p].sub = TRUE, !.sess[p].subfiles = @ \cup {q.idx}]
       ELSE [base EXCEPT !.sess[p].files = @ \cup {q.idx}]

Advance(q) ==
    IF q.idx < q.n THEN [q EXCEPT !.pc = "song", !.idx = @ + 1]
    ELSE [q EXCEPT !.pc = "check"]

\* The locals of the song loop go out of scope
EndLoop(q) ==
    [q EXCEPT !.att = <<>>, !.success = FALSE, !.idx = 0,
              !.proxy_url = FALSE, !.best_cookies = NoCookie, !.fetched = <<>>]
\* An exception that no inner try catches reaches "except Exception" of line
\* 471; att still tells which call raised it
Raised(q) == [EndLoop(q) EXCEPT !.pc = "except", !.att = q.att]
Returned(q, how) == [EndLoop(q) EXCEPT !.pc = "done", !.outcome = how]

\* lines 359-369: read the form, sanitize the name, allocate the workspace
Receive(r) ==
    /\ req[r].pc = "idle"
    /\ nextId <= MaxSessions
    /\ \E url \in BOOLEAN, name \in RawNames :
         LET user == sanitize_name(name)
             p == session_path(user, nextId)
         IN IF ~url
            THEN /\ req' = [req EXCEPT ![r] = Returned([@ EXCEPT !.user_name = user, !.flashed = TRUE], "failed")]
                 /\ UNCHANGED <<tree, nextId>>
            ELSE /\ tree' = makedirs(tree, p, now)
                 /\ nextId' = nextId + 1
                 /\ req' = [req EXCEPT ![r] = [@ EXCEPT !.url = TRUE, !.user_name = user,
                                                 !.session_folder = p, !.pc = "search"]]
    /\ UNCHANGED <<platform, now, area, env, sw, sel>>

\* lines 373-383, 387: credentials, Spotdl(...).search([url]); res = -1 stands
\* for an exception raised by the collaborator
Search(r) ==
    /\ req[r].pc = "search"
    /\ \E creds \in BOOLEAN, res \in -1..MaxSongs, named \in BOOLEAN :
         req' = [req EXCEPT ![r] =
                   IF ~creds THEN [@ EXCEPT !.pc = "except"]
                   ELSE IF res = -1 THEN [@ EXCEPT !.pc = "except", !.called = TRUE]
                   ELSE IF res = 0 THEN [@ EXCEPT !.pc = "nosongs", !.called = TRUE, !.flashed = TRUE]
                   ELSE [@ EXCEPT !.pc = "setup", !.called = TRUE, !.n = res,
                                  !.named = (res = 1) \/ named]]
    /\ UNCHANGED <<platform, now, nextId, tree, area, env, sw, sel>>

\* shutil.rmtree(session_folder): removes the workspace, or raises
\* (FileNotFoundError when it is gone, OSError when the removal fails);
\* rm_failed remembers that a removal of the workspace has raised
TryRmtree(r, removed, raised) ==
    \E ok \in BOOLEAN :
       IF ok /\ Exists(req[r].session_folder)
       THEN /\ tree' = rmtree_session(tree, req[r].session_folder, now)
            /\ req' = [req EXCEPT ![r] = removed]
       ELSE /\ tree' = tree
            /\ req' = [req EXCEPT ![r] = [raised EXCEPT !.rm_failed = TRUE]]

\* line 384
NoSongs(r) ==
    /\ req[r].pc = "nosongs"
    /\ TryRmtree(r, Returned(req[r], "failed"), [req[r] EXCEPT !.pc = "except"])
    /\ UNCHANGED <<platform, now, nextId, area, env, sw, sel>>

\* lines 388-400: the playlist directory, PROXY_URL, get_best_cookies()
Setup(r) ==
    /\ req[r].pc = "setup"
    /\ \E proxy \in BOOLEAN, writeOk \in BOOLEAN, order \in Orders(area.cookies),
          W \in SUBSET ({EnvPath} \cup {UploadPath(nm) : nm \in Names(area.cookies)}) :
         LET q == req[r]
             p == q.session_folder
             made == makedirs(tree, p, now)
             best == BestOf(SortOptions(cookies_options(env.blob /\ writeOk, order, W, now)))
         IN /\ tree' = IF ~is_playlist(q) THEN tree
                       ELSE IF UsesSub(q) THEN [made EXCEPT !.sess[p].sub = TRUE]
                       ELSE made
            /\ env' = EnvAfter(env, writeOk)
            /\ req' = [req EXCEPT ![r] = [@ EXCEPT !.pc = "song", !.idx = 1,
                                            !.proxy_url = proxy, !.best_cookies = best]]
    /\ UNCHANGED <<platform, now, nextId, area, sw, sel>>

\* One call of downloader.download_song(song) on target q.idx has ended with
\* `result`: fetched lists the targets called so far, in call order
Called(q, args, before, result) ==
    [q EXCEPT !.att = Append(before, [args |-> args, result |-> result]),
              !.success = (result = "ok"),
              !.fetched = IF @ # <<>> /\ @[Len(@)] = q.idx THEN @ ELSE Append(@, q.idx)]

AfterAttempt_abort_on_ape(q, result, more) ==
    IF result \in {"err", "ape"} THEN Raised(q)
    ELSE IF more THEN [q EXCEPT !.pc = "retry"]
    ELSE Advance(q)
\* lines 421-424, 427, 446-448: AudioProviderError is caught where it is
\* raised, any other exception leaves the loop
AfterAttempt(q, result, more) ==
    IF result = "err" THEN Raised(q)
    ELSE IF more THEN [q EXCEPT !.pc = "retry"]
    ELSE Advance(q)

\* lines 403-424: attempt 1, with proxy
Primary(r) ==
    /\ req[r].pc = "song"
    /\ req[r].proxy_url
    /\ \E result \in FetchResults, landed \in BOOLEAN :
         LET q == Called(req[r], PrimaryArgs(req[r].best_cookies), <<>>, result)
         IN /\ tree' = IF landed THEN LandFile(tree, q, now) ELSE tree
            /\ req' = [req EXCEPT ![r] = AfterAttempt(q, result, NeedFallback(q.success))]
    /\ UNCHANGED <<platform, now, nextId, area, env, sw, sel>>

\* lines 403, 427-448: attempt 2, without proxy
Fallback(r) ==
    /\ \/ req[r].pc = "song" /\ ~req[r].proxy_url /\ NeedFallback(FALSE)
       \/ req[r].pc = "retry"
    /\ \E result \in FetchResults, landed \in BOOLEAN :
         LET before == IF req[r].pc = "song" THEN <<>> ELSE req[r].att
             q == Called(req[r], FallbackArgs(req[r].best_cookies), before, result)
         IN /\ tree' = IF landed THEN LandFile(tree, q, now) ELSE tree
            /\ req' = [req EXCEPT ![r] = AfterAttempt(q, result, FALSE)]
    /\ UNCHANGED <<platform, now, nextId, area, env, sw, sel>>

\* lines 453-454, 467-468: is the output directory there and non-empty
OutputNonEmpty(q) ==
    /\ Exists(q.session_folder)
    /\ LET s == tree.sess[q.session_folder]
       IN IF UsesSub(q) THEN s.sub /\ s.subfiles # {} ELSE ~SessionEmpty(s)

\* output remembers what the test of line 454 found
CheckOutput(r) ==
    /\ req[r].pc = "check"
    /\ LET q == [req[r] EXCEPT !.output = IF OutputNonEmpty(req[r]) THEN "files" ELSE "empty"]
       IN req' = [req EXCEPT ![r] =
                    IF OutputNonEmpty(q)
                    THEN [EndLoop(q) EXCEPT !.pc = IF is_playlist(q) THEN "archive" ELSE "pick"]
                    ELSE IF Exists(q.session_folder)
                         THEN [EndLoop(q) EXCEPT !.flashed = TRUE, !.pc = "fail_rm"]
                         ELSE Returned([q EXCEPT !.flashed = TRUE], "failed")]
    /\ UNCHANGED <<platform, now, nextId, tree, area, env, sw, sel>>

\* lines 456-458: shutil.make_archive(session_folder/<name>, 'zip', download_path)
Archive(r) ==
    /\ req[r].pc = "archive"
    /\ LET q == req[r]
           p == q.session_folder
       IN IF Exists(p) /\ (UsesSub(q) => tree.sess[p].sub)
          THEN /\ tree' = [tree EXCEPT !.sess[p].zip = TRUE]
               /\ req' = [req EXCEPT ![r].pc = "rm_sub"]
          ELSE /\ tree' = tree
               /\ req' = [req EXCEPT ![r].pc = "except"]
    /\ UNCHANGED <<platform, now, nextId, area, env, sw, sel>>

\* lines 459, 464-465: shutil.rmtree(download_path), then the success page
RmSub(r) ==
    /\ req[r].pc = "rm_sub"
    /\ \E ok \in BOOLEAN :
         LET q == req[r]
             p == q.session_folder
         IN IF ok /\ Exists(p) /\ (UsesSub(q) => tree.sess[p].sub)
            THEN /\ tree' = IF UsesSub(q)
                            THEN [tree EXCEPT !.sess[p].sub = FALSE, !.sess[p].subfiles = {}]
                            ELSE rmtree_session(tree, p, now)
                 /\ req' = [req EXCEPT ![r] = Returned(q, "success")]
            ELSE /\ tree' = tree
                 /\ req' = [req EXCEPT ![r].pc = "except"]
    /\ UNCHANGED <<platform, now, nextId, area, env, sw, sel>>

\* lines 462-465: os.listdir(session_folder)[0], then the success page
Pick(r) ==
    /\ req[r].pc = "pick"
    /\ LET q == req[r]
           p == q.session_folder
       IN IF Exists(p) /\ tree.sess[p].files # {}
          THEN \E f \in tree.sess[p].files :
                 req' = [req EXCEPT ![r] = Returned([q EXCEPT !.final = f], "success")]
          ELSE req' = [req EXCEPT ![r].pc = "except"]
    /\ UNCHANGED <<platform, now, nextId, tree, area, env, sw, sel>>

\* line 469
FailRm(r) ==
    /\ req[r].pc = "fail_rm"
    /\ TryRmtree(r, Returned(req[r], "failed"), [req[r] EXCEPT !.pc = "except"])
    /\ UNCHANGED <<platform, now, nextId, area, env, sw, sel>>

\* lines 471-474, 477: except Exception: flash, does the workspace exist
Except(r) ==
    /\ req[r].pc = "except"
    /\ LET q == [req[r] EXCEPT !.flashed = TRUE, !.att = <<>>]
       IN req' = [req EXCEPT ![r] =
                    IF Exists(q.session_folder) THEN [q EXCEPT !.pc = "exc_rm"]
                    ELSE Returned(q, "failed")]
    /\ UNCHANGED <<platform, now, nextId, tree, area, env, sw, sel>>

\* lines 475, 477: the removal inside the except clause; what it raises
\* leaves the handler
ExcRm(r) ==
    /\ req[r].pc = "exc_rm"
    /\ TryRmtree(r, Returned(req[r], "failed"), Returned(req[r], "crashed"))
    /\ UNCHANGED <<platform, now, nextId, area, env, sw, sel>>

\* The worker thread is free for the next request
Finish(r) ==
    /\ req[r].pc = "done"
    /\ req' = [req EXCEPT ![r] = NewRequest]
    /\ UNCHANGED <<platform, now, nextId, tree, area, env, sw, sel>>

process_download(r) ==
    \/ Receive(r) \/ Search(r) \/ NoSongs(r) \/ Setup(r)
    \/ Primary(r) \/ Fallback(r)
    \/ CheckOutput(r) \/ Archive(r) \/ RmSub(r) \/ Pick(r)
    \/ FailRm(r) \/ Except(r) \/ ExcRm(r) \/ Finish(r)

\* ------------------------------------------------------------- sweeper
\* failed: a deletion of this run failed; skipped: the listed items the run
\* ended without examining
Idle == [pc |-> "idle", now |-> 0, folder |-> 1, items |-> {}, failed |-> FALSE,
         skipped |-> {}]

\* cutoff = now - timedelta(hours=2); cookie_cutoff = now - timedelta(days=7)
cutoff(w) == w.now - RetentionHours
cookie_cutoff(w) == w.now - CookieRetentionDays * 24

\* os.listdir(base_folder)
Listdir(k) ==
    IF k = 1 THEN DOMAIN tree.users ELSE Names(area[BaseFolders[k]])

\* lines 219-224, 240-242: with nothing left to do in a base folder the loop
\* lists the next one, after the last one the cookie bundles are globbed and
\* after the last bundle the run is over
RECURSIVE Settle(_)
Settle(w) ==
    IF w.items # {} \/ w.pc = "done" THEN w
    ELSE IF w.pc = "scan" /\ w.folder < Len(BaseFolders)
    THEN Settle([w EXCEPT !.folder = @ + 1, !.items = Listdir(w.folder + 1)])
    ELSE IF w.pc = "scan"
    THEN Settle([w EXCEPT !.pc = "cookies", !.folder = Len(BaseFolders) + 1,
                          !.items = Names(area.cookies)])
    ELSE [w EXCEPT !.pc = "done"]

\* lines 214-224: a run starts
SweepStart ==
    /\ sw.pc = "idle"
    /\ sw' = Settle([Idle EXCEPT !.pc = "scan", !.now = now, !.items = Listdir(1)])
    /\ UNCHANGED <<platform, now, nextId, tree, area, env, req, sel>>

\* Is the listed item still there, and is it older than the cutoff
ItemThere(k, item) == item \in Listdir(k)
ItemCtime(k, item) ==
    IF k = 1 THEN getctime(tree, item) ELSE EntryOf(area[BaseFolders[k]], item).ctime
Expired(k, item, w) == ItemThere(k, item) /\ ItemCtime(k, item) < cutoff(w)

\* lines 225-235: one item of a base folder; a failing getctime, rmtree or
\* remove is caught per item
SweepEntry ==
    /\ sw.pc = "scan"
    /\ \E item \in sw.items, ok \in BOOLEAN :
         LET k == sw.folder
             hit == Expired(k, item, sw)
         IN /\ tree' = IF hit /\ ok /\ k = 1 THEN rmtree_user(tree, item) ELSE tree
            /\ area' = IF hit /\ ok /\ k # 1
                       THEN [area EXCEPT ![BaseFolders[k]] = {e \in @ : e.name # item}]
                       ELSE area
            /\ sw' = Settle([sw EXCEPT !.items = @ \ {item},
                                       !.failed = @ \/ (hit /\ ~ok)])
    /\ UNCHANGED <<platform, now, nextId, env, req, sel>>

CookieExpired(item, w) ==
    item \in Names(area.cookies) /\ EntryOf(area.cookies, item).ctime < cookie_cutoff(w)

\* lines 241-247: one cookie bundle; the try encloses the whole loop, so an
\* exception ends the run
CookieStep(w, item, hit, ok) ==
    IF hit /\ ~ok
    THEN [w EXCEPT !.pc = "done", !.items = {}, !.failed = TRUE,
                   !.skipped = w.items \ {item}]
    ELSE [w EXCEPT !.items = @ \ {item}]

SweepCookie ==
    /\ sw.pc = "cookies"
    /\ \E item \in sw.items, ok \in BOOLEAN :
         LET hit == CookieExpired(item, sw)
         IN /\ area' = IF hit /\ ok
                       THEN [area EXCEPT !.cookies = {e \in @ : e.name # item}]
                       ELSE area
            /\ sw' = Settle(CookieStep(sw, item, hit, ok))
    /\ UNCHANGED <<platform, now, nextId, tree, env, req, sel>>

\* The run is over; the scheduler waits for the next interval
SweepReturn ==
    /\ sw.pc = "done"
    /\ sw' = Idle
    /\ UNCHANGED <<platform, now, nextId, tree, area, env, req, sel>>

cleanup_old_files == SweepStart \/ SweepEntry \/ SweepCookie \/ SweepReturn

\* --------------------------------------------------------------- clock
Tick ==
    /\ now < MaxTime
    /\ sw.pc = "idle"
    /\ now' = now + 1
    /\ UNCHANGED <<platform, nextId, tree, area, env, req, sw, sel>>

\* ---------------------------------------------------------------- Spec
NoSelection == [options |-> <<>>, result |-> NoCookie, calls |-> 0]

Init ==
    /\ platform \in {"posix", "windows"}
    /\ now = 0
    /\ nextId = 1
    /\ tree = EmptyTree
    /\ area = [EmptyAreas EXCEPT !.cookies = {[name |-> <<"c", "1">>, ctime |-> 0]}]
    /\ env = [blob |-> FALSE, file |-> FALSE, cookies_file |-> NoCookie]
    /\ req = [r \in Requests |-> NewRequest]
    /\ sw = Idle
    /\ sel = NoSelection

\* One handler thread, the sweeper and the clock
Next ==
    \/ process_download(1)
    \/ cleanup_old_files
    \/ Tick

Spec == Init /\ [][Next]_vars

\* NumReq handler threads serving requests concurrently
NextConcurrent == \E r \in Requests : process_download(r)

SpecConcurrent == Init /\ [][NextConcurrent]_vars

\* --------------------------------------------- cookie management routes
\* setup_youtube_cookies(), lines 203-211, on the cookie bundles `cookies`:
\* get_best_cookies() and, when it returns a path, YOUTUBE_COOKIES_FILE
SelectionAfter(cookies) ==
    \E writeOk \in BOOLEAN, order \in Orders(cookies),
       W \in SUBSET ({EnvPath} \cup {UploadPath(nm) : nm \in Names(cookies)}) :
      LET opts == cookies_options(env.blob /\ writeOk, order, W, now)
          best == BestOf(SortOptions(opts))
      IN /\ env' = [EnvAfter(env, writeOk) EXCEPT !.cookies_file = IF best # NoCookie THEN best ELSE @]
         /\ sel' = [options |-> opts, result |-> best, calls |-> 1]

\* line 255: the selection made when the module is loaded
Startup ==
    /\ sel.calls = 0
    /\ area' = area
    /\ SelectionAfter(area.cookies)
    /\ UNCHANGED <<platform, now, nextId, tree, req, sw>>

\* lines 289-334, a valid file: the bundle is stored, then the selection is redone
upload_cookies ==
    /\ Cardinality(area.cookies) < MaxCookies
    /\ \E name \in CookieNames \ Names(area.cookies) :
         /\ area' = [area EXCEPT !.cookies = @ \cup {[name |-> name, ctime |-> now]}]
         /\ SelectionAfter(area'.cookies)
    /\ UNCHANGED <<platform, now, nextId, tree, req, sw>>

\* lines 336-354, the file existing: it is removed, then the selection is redone
delete_cookies ==
    /\ \E name \in Names(area.cookies) :
         /\ area' = [area EXCEPT !.cookies = {e \in @ : e.name # name}]
         /\ SelectionAfter(area'.cookies)
    /\ UNCHANGED <<platform, now, nextId, tree, req, sw>>

InitCookies ==
    /\ platform \in {"posix", "windows"}
    /\ now = 0
    /\ nextId = 1
    /\ tree = EmptyTree
    /\ area \in {EmptyAreas, [EmptyAreas EXCEPT !.cookies = {[name |-> <<"c", "1">>, ctime |-> 0]}]}
    /\ env \in {[blob |-> b, file |-> FALSE, cookies_file |-> NoCookie] : b \in BOOLEAN}
    /\ req = [r \in Requests |-> NewRequest]
    /\ sw = Idle
    /\ sel = NoSelection

NextCookies == Startup \/ upload_cookies \/ delete_cookies \/ Tick

SpecCookies == InitCookies /\ [][NextCookies]_vars

\* ------------------------------------------------ the sweeper on its own
\* Ages, in hours, of what a run may find in the storage areas
Ages == {RetentionHours - 1, RetentionHours + 1, CookieRetentionDays * 24 + 1}
AgedEntries(names) ==
    {S \in SUBSET {[name |-> nm, ctime |-> 0 - a] : nm \in names, a \in Ages} :
       \A e1, e2 \in S : e1.name = e2.name => e1 = e2}

InitSweep ==
    /\ platform \in {"posix", "windows"}
    /\ now = 0
    /\ nextId = 1
    /\ \E a \in Ages \cup {0} :
         tree = IF a = 0 THEN EmptyTree
                ELSE [users |-> (guest :> [ctime |-> 0 - a]),
                      sess |-> (session_path(guest, 0) :> [NewSession(0 - a) EXCEPT !.files = {1}])]
    /\ \E up, out \in AgedEntries({<<"f", "1">>}), ck \in AgedEntries({<<"c", "1">>, <<"c", "2">>}) :
         area = [converter_uploads |-> up, converter_output |-> out, cookies |-> ck]
    /\ env = [blob |-> FALSE, file |-> FALSE, cookies_file |-> NoCookie]
    /\ req = [r \in Requests |-> NewRequest]
    /\ sw = Idle
    /\ sel = NoSelection

SpecSweep == InitSweep /\ [][cleanup_old_files]_vars

\* ================================================================ claims
InLoop(q) == q.pc \in {"song", "check"}

\* C1: with a proxy configured, a target whose primary attempt did not report
\* success (a false flag or AudioProviderError) gets exactly one further
\* attempt, whose configuration has no proxy and no source-address field, and
\* the target's success flag is that attempt's flag; no target ever gets a
\* third attempt.
FallbackOnce ==
    \A r \in Requests :
       LET q == req[r]
       IN /\ Len(q.att) <= 2
          /\ (InLoop(q) /\ q.proxy_url /\ q.att # <<>> /\ q.att[1].result \in {"fail", "ape"})
                => /\ Len(q.att) = 2
                   /\ ~q.att[2].args.proxy
                   /\ ~q.att[2].args.source_address
                   /\ q.success = (q.att[2].result = "ok")

FallbackOnceWitness ==
    \E r \in Requests :
       /\ InLoop(req[r]) /\ req[r].proxy_url /\ Len(req[r].att) = 2
       /\ req[r].att[1].result = "ape" /\ req[r].att[2].result = "ok" /\ req[r].success

\* C2: without a proxy every target gets exactly one attempt (the one without
\* proxy), whether it succeeds or fails; with a proxy and a successful primary
\* attempt there is no fallback attempt.
SingleAttempt ==
    \A r \in Requests :
       LET q == req[r]
       IN /\ (q.pc = "check" \/ (q.pc = "song" /\ q.idx > 1)) => q.att # <<>>
          /\ (InLoop(q) /\ q.att # <<>> /\ ~q.proxy_url)
                => Len(q.att) = 1 /\ ~q.att[1].args.proxy
          /\ (InLoop(q) /\ q.att # <<>> /\ q.proxy_url /\ q.att[1].result = "ok")
                => Len(q.att) = 1

SingleAttemptWitness ==
    \E r \in Requests :
       /\ req[r].pc = "check" /\ req[r].n = MaxSongs /\ ~req[r].proxy_url
       /\ Len(req[r].att) = 1 /\ req[r].att[1].result = "fail"

InFlight(q) == q.pc \notin {"idle", "done"}
SweeperStep == sw' # sw

\* C3: no step of the sweeper deletes the workspace of a request that has not
\* returned yet.
SweeperSparesInFlight ==
    [][\A r \in Requests :
         (SweeperStep /\ InFlight(req[r]) /\ req[r].session_folder \in DOMAIN tree.sess)
            => req[r].session_folder \in DOMAIN tree'.sess]_vars

\* C4: no step of the sweeper deletes a session directory created less than
\* RetentionHours before the run started.
YoungSessionSurvives ==
    [][\A p \in DOMAIN tree.sess :
         (SweeperStep /\ sw.now - tree.sess[p].created < RetentionHours)
            => p \in DOMAIN tree'.sess]_vars

\* C5: when a run in which no deletion failed is over, no session directory
\* created more than RetentionHours before the run is left.
OldSessionsGone ==
    (sw.pc = "done" /\ ~sw.failed)
       => \A p \in DOMAIN tree.sess : ~(sw.now - tree.sess[p].created > RetentionHours)

\* C6: get_best_cookies returns a lowest-age candidate among the working ones
\* if there is one, else a lowest-age candidate if there is any, else none;
\* the environment bundle has age 0.
Youngest(S) == {o \in S : \A x \in S : o.age <= x.age}
BestCookieChosen ==
    LET O == Range(sel.options)
        Wk == {o \in O : o.working}
    IN sel.calls > 0 =>
         /\ \A o \in O : o.path = EnvPath => o.age = 0
         /\ IF Wk # {} THEN sel.result \in {o.path : o \in Youngest(Wk)}
            ELSE IF O # {} THEN sel.result \in {o.path : o \in Youngest(O)}
            ELSE sel.result = NoCookie

BestCookieWitness ==
    /\ sel.calls > 0
    /\ \E o, x \in Range(sel.options) :
         /\ o.working /\ sel.result = o.path
         /\ ~x.working /\ x.age < o.age

\* C7: concurrent requests have different workspace paths, each under the
\* download root, and a step of one request leaves every other request's
\* workspace as it is.
SafeLabel(l) == l # <<>> /\ l \notin {<<".">>, <<".", ".">>} /\ "/" \notin Range(l)
WorkspaceOf(tr, p) == IF p \in DOMAIN tr.sess THEN <<tr.sess[p]>> ELSE <<>>
DisjointWorkspaces ==
    /\ [](\A r1, r2 \in Requests :
            (InFlight(req[r1]) /\ InFlight(req[r2]) /\ r1 # r2)
               => /\ req[r1].session_folder # req[r2].session_folder
                  /\ SafeLabel(req[r1].session_folder.user))
    /\ [][\A r \in Requests :
            (req'[r] = req[r] /\ req[r].session_folder # NoPath)
               => WorkspaceOf(tree', req[r].session_folder) = WorkspaceOf(tree, req[r].session_folder)]_vars

DisjointWitness ==
    \E r1, r2 \in Requests :
       /\ r1 # r2
       /\ req[r1].pc = "check" /\ req[r2].pc = "exc_rm"
       /\ req[r1].user_name = req[r2].user_name
       /\ Exists(req[r1].session_folder) /\ Exists(req[r2].session_folder)
       /\ tree.sess[req[r1].session_folder].files # {}

\* C8: a request that has returned a failure has flashed a message and has no
\* workspace: with the url missing none was allocated and no collaborator was
\* called, otherwise the allocated one has been removed.
FailureLeavesNoWorkspace ==
    \A r \in Requests :
       LET q == req[r]
       IN (q.pc = "done" /\ q.outcome = "failed")
             => /\ q.flashed
                /\ ~q.url => (q.session_folder = NoPath /\ ~q.called /\ q.n = 0)
                /\ q.url => (q.session_folder # NoPath /\ ~Exists(q.session_folder))

FailureWitness ==
    \E r \in Requests :
       /\ req[r].pc = "done" /\ req[r].outcome = "failed"
       /\ req[r].url /\ req[r].called /\ req[r].n > 0 /\ req[r].flashed

\* C9: a step that only makes the cookie selection writes no file.
SelectionWritesNothing ==
    [][(sel' # sel /\ area' = area) => (env'.file = env.file /\ tree' = tree)]_vars

\* C10: a run that is over has examined every expired entry it listed, also
\* when a deletion failed.
EveryExpiredAttempted ==
    sw.pc = "done" => \A item \in sw.skipped : ~CookieExpired(item, sw)

\* C11: a removal of the workspace that fails on a failure path is not
\* attempted again and does not leave the handler by an exception: the
\* handler returns its redirect with the message flashed.
RemovalFailureOnlyLogged ==
    \A r \in Requests :
       LET q == req[r]
       IN /\ q.rm_failed => q.pc # "exc_rm"
          /\ q.outcome # "crashed"
          /\ (q.rm_failed /\ q.pc = "done") => (q.outcome = "failed" /\ q.flashed)

\* C12: an AudioProviderError raised by an attempt counts as that attempt's
\* failure and never takes the handler out of the song loop; the targets are
\* fetched in the order of the search result, and when the loop is over every
\* target has had at least one attempt.
FirstTargets(k) == [i \in 1..k |-> i]
FetchErrorNeverAborts ==
    \A r \in Requests :
       LET q == req[r]
       IN /\ (q.pc = "except" /\ q.att # <<>>) => q.att[Len(q.att)].result = "err"
          /\ (InLoop(q) /\ q.att # <<>> /\ q.att[Len(q.att)].result = "ape") => ~q.success
          /\ q.pc = "song" => q.fetched = FirstTargets(q.idx - 1)
          /\ q.pc = "retry" => q.fetched = FirstTargets(q.idx)
          /\ q.pc = "check" => q.fetched = FirstTargets(q.n)

\* both attempts on the first target raised AudioProviderError and the handler
\* is at the second target
FetchErrorWitness ==
    \E r \in Requests :
       /\ req[r].pc = "song" /\ req[r].idx = 2 /\ req[r].fetched = <<1>>
       /\ Len(req[r].att) = 2 /\ \A i \in 1..2 : req[r].att[i].result = "ape"

\* C13: the handler ends with the success page exactly when the test made
\* after the song loop found the output directory present and non-empty,
\* whatever the attempts reported; when the test found no file the handler
\* returns a failure and the workspace is removed.
OutputDecidesSuccess ==
    \A r \in Requests :
       LET q == req[r]
       IN q.pc = "done" =>
            /\ (q.outcome = "success") <=> (q.output = "files")
            /\ q.output = "empty" => (q.outcome = "failed" /\ ~Exists(q.session_folder))

\* C14: at the return of the success page of a multi-target batch the
\* workspace exists and holds the archive and no uncompressed directory;
\* at that of a single-target batch the file named is in the workspace.
SuccessServesFile ==
    [][\A r \in Requests :
         (req[r].pc # "done" /\ req'[r].pc = "done" /\ req'[r].outcome = "success")
            => LET q == req'[r]
                   p == q.session_folder
               IN /\ p \in DOMAIN tree'.sess
                  /\ IF is_playlist(q)
                     THEN tree'.sess[p].zip /\ ~tree'.sess[p].sub
                     ELSE q.final \in tree'.sess[p].files]_vars

====
